---- MODULE Spec2Model ----
(***************************************************************************)
(* Version resolution of kubeadm (cmd/kubeadm/app/util/version.go):        *)
(* KubernetesReleaseVersion and its helpers, run against a release bucket  *)
(* whose files are the state of the environment.                           *)
(*                                                                         *)
(* Strings are TLA+ strings; Len, \o and SubSeq act on them character by   *)
(* character, so every regular expression of the source is matched on the  *)
(* characters of its argument.                                             *)
(***************************************************************************)
EXTENDS Naturals, Sequences, FiniteSets, TLC

VARIABLES
    server,         \* the release bucket: URL -> HTTP response (other URLs: 404)
    clientVersion,  \* pkgversion.Get().String() of the running client
    request,        \* the argument of the caller's KubernetesReleaseVersion call
    pc,             \* "call": an invocation is about to run; "returned": the caller has the result
    version,        \* the argument of the innermost invocation
    ver,            \* the returned version ("" with an error)
    err,            \* the returned error (NoError when nil)
    fetches,        \* number of fetchFromURL calls issued so far (it stops counting at MaxFetches)
    lastURL,        \* URL of the most recent fetchFromURL call ("" before the first)
    log,            \* glog.Infof messages written so far
    isCI,           \* the answers KubernetesIsCIVersion(request) has given the caller
    again,          \* whether the caller has passed the returned version back in
    first           \* the version the first call returned ("" until it is passed back in)

vars == <<server, clientVersion, request, pc, version, ver, err, fetches, lastURL, log, isCI,
          again, first>>

----------------------------------------------------------------------------
(* Characters and strings.  Where a definition reads LET f[x \in {e}] == ...  *)
(* IN f[e], x is the value of e, computed once for the body.                 *)

Char(s, i) == SubSeq(s, i, i)

Digits == {"0", "1", "2", "3", "4", "5", "6", "7", "8", "9"}

LowerChars == {"a", "b", "c", "d", "e", "f", "g", "h", "i", "j", "k", "l", "m",
               "n", "o", "p", "q", "r", "s", "t", "u", "v", "w", "x", "y", "z"}

UpperChars == {"A", "B", "C", "D", "E", "F", "G", "H", "I", "J", "K", "L", "M",
               "N", "O", "P", "Q", "R", "S", "T", "U", "V", "W", "X", "Y", "Z"}

\* \w of the regular expressions
WordChars == Digits \cup LowerChars \cup UpperChars \cup {"_"}

AllIn(s, chars) == \A i \in 1..Len(s) : Char(s, i) \in chars

HasPrefix(s, p) == Len(s) >= Len(p) /\ SubSeq(s, 1, Len(p)) = p

\* the text after the first n characters
Drop(s, n) == SubSeq(s, n + 1, Len(s))

\* (0|[1-9][0-9]*)
IsNumber(s) ==
    /\ Len(s) >= 1
    /\ AllIn(s, Digits)
    /\ (Char(s, 1) = "0" => Len(s) = 1)

\* the positions of character c in s
Positions(s, c) == {i \in 1..Len(s) : Char(s, i) = c}

Min(S) == CHOOSE x \in S : \A y \in S : x <= y

Max(S) == CHOOSE x \in S : \A y \in S : x >= y

\* strings.Split(s, "."): the dot-separated parts of s, in order; part k lies
\* between the (k-1)-th and the k-th dot
Split(s) ==
    LET parts[t \in {s}, dots \in {Positions(s, ".")}] ==
            LET dot(k) == IF k = 0 THEN 0
                          ELSE IF k = Cardinality(dots) + 1 THEN Len(t) + 1
                          ELSE CHOOSE d \in dots : Cardinality({e \in dots : e < d}) = k - 1
            IN  [k \in 1..(Cardinality(dots) + 1) |-> SubSeq(t, dot(k - 1) + 1, dot(k) - 1)]
    IN  parts[s, Positions(s, ".")]

\* strings.TrimSpace, for the white space of the modelled bodies
WhiteSpace == {" ", "\n", "\t", "\r"}

TrimSpace(s) ==
    LET trimmed[t \in {s}] ==
            LET inked == {i \in 1..Len(t) : Char(t, i) \notin WhiteSpace}
            IN  IF inked = {} THEN "" ELSE SubSeq(t, Min(inked), Max(inked))
    IN  trimmed[s]

----------------------------------------------------------------------------
(* The three patterns *)

\* [-0-9a-zA-Z_\.+]
ReleaseSuffixChars == Digits \cup LowerChars \cup UpperChars \cup {"-", "_", ".", "+"}

\* (0|[1-9][0-9]*)\.(0|[1-9][0-9]*)\.(0|[1-9][0-9]*)([-0-9a-zA-Z_\.+]*)?$ on s
MatchesCore(s) ==
    \E i \in Positions(s, ".") :
        /\ IsNumber(SubSeq(s, 1, i - 1))
        /\ \E j \in Positions(s, ".") :
            /\ j > i
            /\ IsNumber(SubSeq(s, i + 1, j - 1))
            /\ \E k \in (j + 1)..Len(s) :
                /\ IsNumber(SubSeq(s, j + 1, k))
                /\ AllIn(Drop(s, k), ReleaseSuffixChars)

\* kubeReleaseRegex.MatchString(s)
kubeReleaseRegex(s) ==
    \E text \in {s} :
        \/ MatchesCore(text)
        \/ HasPrefix(text, "v") /\ \E rest \in {Drop(text, 1)} : MatchesCore(rest)

\* [-\w_\.]
LabelTailChars == WordChars \cup {"-", "_", "."}

\* kubeReleaseLabelRegex.MatchString(s): ^[[:lower:]]+(-[-\w_\.]+)?$
kubeReleaseLabelRegex(s) ==
    \E text \in {s} :
        \E k \in 1..Len(text) :
            /\ AllIn(SubSeq(text, 1, k), LowerChars)
            /\ \/ k = Len(text)
               \/ /\ Len(text) >= k + 2
                  /\ Char(text, k + 1) = "-"
                  /\ AllIn(Drop(text, k + 1), LabelTailChars)

\* [-\w_\.+]
BucketRestChars == WordChars \cup {"-", "_", ".", "+"}

\* (release|ci|ci-cross)
BucketNames == {"release", "ci", "ci-cross"}

\* kubeBucketPrefixes.FindAllStringSubmatch(s, 1): no match, or the one match
\* <<whole, group 1, group 2, group 3>> of ^((release|ci|ci-cross)/)?([-\w_\.+]+)$
kubeBucketPrefixes(s) ==
    IF Len(s) >= 1 /\ AllIn(s, BucketRestChars)
    THEN << <<s, "", "", s>> >>
    ELSE IF \E b \in BucketNames :
                /\ HasPrefix(s, b \o "/")
                /\ Len(s) > Len(b) + 1
                /\ AllIn(Drop(s, Len(b) + 1), BucketRestChars)
         THEN LET b == CHOOSE b \in BucketNames :
                            /\ HasPrefix(s, b \o "/")
                            /\ Len(s) > Len(b) + 1
                            /\ AllIn(Drop(s, Len(b) + 1), BucketRestChars)
              IN  << <<s, b \o "/", b, Drop(s, Len(b) + 1)>> >>
         ELSE << >>

----------------------------------------------------------------------------
(* Errors *)

NoError == [type |-> "nil", msg |-> "", arg |-> ""]

\* fmt.Errorf / errors.New: the message's format and the value it quotes
Errorf(format, a) == [type |-> "error", msg |-> format, arg |-> a]

status404Error(message, a) == [type |-> "status404Error", msg |-> message, arg |-> a]

\* variant: no error is taken for a 404
isStatus404ErrorNever(e) == FALSE

\* variant: every error is taken for a 404
isStatus404ErrorAny(e) == e # NoError

isStatus404Error(e) ==
    IF e = NoError THEN FALSE
    ELSE IF e.type = "status404Error" THEN TRUE ELSE FALSE

----------------------------------------------------------------------------
(* Numbers in decimal *)

\* the numbers of the modelled versions have at most this many digits
MaxDigits == 4

DigitSeq == <<"0", "1", "2", "3", "4", "5", "6", "7", "8", "9">>

DigitValue(c) == (CHOOSE i \in 1..Len(DigitSeq) : DigitSeq[i] = c) - 1

\* strconv.ParseUint(s, 10, 0) of a string of digits
ParseUint(s) ==
    LET value[i \in 0..Len(s)] ==
            IF i = 0 THEN 0 ELSE value[i - 1] * Len(DigitSeq) + DigitValue(Char(s, i))
    IN  value[Len(s)]

\* the %d verb of fmt.Sprintf: the decimal digits of n, the highest first
FormatUint(n) ==
    LET digits[m \in {n}] ==
            LET width == Min({w \in 1..MaxDigits : m \div (Len(DigitSeq) ^ (w - 1)) < Len(DigitSeq)})
                text[i \in 0..width] ==
                    IF i = 0 THEN ""
                    ELSE text[i - 1]
                         \o DigitSeq[((m \div (Len(DigitSeq) ^ (width - i))) % Len(DigitSeq)) + 1]
            IN  text[width]
    IN  digits[n]

----------------------------------------------------------------------------
(* versionutil.ParseSemantic: a semantic version, v?MAJOR.MINOR.PATCH, then  *)
(* an optional -PRERELEASE and an optional +BUILD, each a dot-separated list *)
(* of identifiers over [0-9A-Za-z-].                                         *)

IdentChars == Digits \cup LowerChars \cup UpperChars \cup {"-"}

IsIdentList(s) ==
    \A parts \in {Split(s)} :
        \A i \in 1..Len(parts) :
            /\ Len(parts[i]) >= 1
            /\ AllIn(parts[i], IdentChars)
            /\ (AllIn(parts[i], Digits) /\ Char(parts[i], 1) = "0" => Len(parts[i]) = 1)

ParseFailed == [ok |-> FALSE, major |-> 0, minor |-> 0, patch |-> 0,
                preRelease |-> "", buildMetadata |-> ""]

ParseVersionText(str) ==
    LET s       == IF HasPrefix(str, "v") THEN Drop(str, 1) ELSE str
        marks   == Positions(s, "-") \cup Positions(s, "+")
        cut     == IF marks = {} THEN Len(s) + 1 ELSE Min(marks)
        numbers == SubSeq(s, 1, cut - 1)
        extra   == Drop(s, cut - 1)
        plus    == IF Positions(extra, "+") = {} THEN Len(extra) + 1
                   ELSE Min(Positions(extra, "+"))
        hasPre  == HasPrefix(extra, "-")
        pre     == IF hasPre THEN SubSeq(extra, 2, plus - 1) ELSE ""
        hasMeta == plus <= Len(extra)
        meta    == Drop(extra, plus)
        comps   == Split(numbers)
    IN  IF /\ Len(comps) = 3
           /\ \A i \in 1..3 : IsNumber(comps[i])
           /\ (hasPre => IsIdentList(pre))
           /\ (hasMeta => IsIdentList(meta))
        THEN [ok |-> TRUE, major |-> ParseUint(comps[1]), minor |-> ParseUint(comps[2]),
              patch |-> ParseUint(comps[3]), preRelease |-> pre, buildMetadata |-> meta]
        ELSE ParseFailed

\* the versions a client of the model may be built as
ClientVersions ==
    {"v1.11.0-beta.0.55+abc", "v1.9.0-alpha.0.1234+sha.abc", "v1.9.0-beta+meta",
     "v1.10.3", "1.12.0-rc.1", "v1.9.0-alpha-1.2.3.4", "v0.0.0+dirty",
     "v0.0.0-master+$Format:%h$", "v1.11", "v01.2.3", "v1.2.3-", "v1.2.3-a..b", ""}

\* ParseSemantic, looked up in the table of the parses of ClientVersions (each
\* is parsed once)
ParsedVersions == [c \in ClientVersions |-> ParseVersionText(c)]

ParseSemantic(str) == ParsedVersions[str]

----------------------------------------------------------------------------
(* The helpers of version.go *)

kubeReleaseBucketURL == "https://dl.k8s.io"

\* variant: the version is returned as written, without the "v"
normalizedBuildVersionAsWritten(v) ==
    IF kubeReleaseRegex(v) THEN v ELSE ""

normalizedBuildVersion(v) ==
    IF kubeReleaseRegex(v)
    THEN IF HasPrefix(v, "v") THEN v ELSE "v" \o v
    ELSE ""

\* variant: the label is the whole match, bucket prefix included
splitVersionWholeMatch(v) ==
    LET subs == kubeBucketPrefixes(v)
    IN  IF Len(subs) # 1 \/ Len(subs[1]) # 4
        THEN [url |-> "", label |-> "", err |-> Errorf("invalid version %q", v)]
        ELSE LET urlSuffix == IF HasPrefix(subs[1][3], "ci") THEN subs[1][3] ELSE "release"
             IN  [url   |-> kubeReleaseBucketURL \o "/" \o urlSuffix,
                  label |-> subs[1][1],
                  err   |-> NoError]

\* variant: a string the pattern does not match is a label of the release bucket
splitVersionLenient(v) ==
    LET subs == kubeBucketPrefixes(v)
    IN  IF Len(subs) # 1 \/ Len(subs[1]) # 4
        THEN [url |-> kubeReleaseBucketURL \o "/release", label |-> v, err |-> NoError]
        ELSE LET urlSuffix == IF HasPrefix(subs[1][3], "ci") THEN subs[1][3] ELSE "release"
             IN  [url   |-> kubeReleaseBucketURL \o "/" \o urlSuffix,
                  label |-> subs[1][4],
                  err   |-> NoError]

\* variant: ci-cross is fetched from the ci bucket
splitVersionOneCI(v) ==
    LET subs == kubeBucketPrefixes(v)
    IN  IF Len(subs) # 1 \/ Len(subs[1]) # 4
        THEN [url |-> "", label |-> "", err |-> Errorf("invalid version %q", v)]
        ELSE LET urlSuffix == IF HasPrefix(subs[1][3], "ci") THEN "ci" ELSE "release"
             IN  [url   |-> kubeReleaseBucketURL \o "/" \o urlSuffix,
                  label |-> subs[1][4],
                  err   |-> NoError]

splitVersion(v) ==
    LET subs == kubeBucketPrefixes(v)
    IN  IF Len(subs) # 1 \/ Len(subs[1]) # 4
        THEN [url |-> "", label |-> "", err |-> Errorf("invalid version %q", v)]
        ELSE LET urlSuffix == IF HasPrefix(subs[1][3], "ci") THEN subs[1][3] ELSE "release"
             IN  [url   |-> kubeReleaseBucketURL \o "/" \o urlSuffix,
                  label |-> subs[1][4],
                  err   |-> NoError]

\* variant: the text of the request is looked at, not the match of the pattern
KubernetesIsCIVersionByText(v) == HasPrefix(v, "ci")

KubernetesIsCIVersion(v) ==
    LET subs == kubeBucketPrefixes(v)
    IN  IF Len(subs) = 1 /\ Len(subs[1]) = 4 /\ HasPrefix(subs[1][3], "ci")
        THEN TRUE
        ELSE FALSE

\* variant: the pre-release is kept whole
kubeadmVersionWholePre(info) ==
    LET format[v \in {ParseSemantic(info)}] ==
            IF ~v.ok
            THEN [body |-> "", err |-> Errorf("kubeadm version error: %v", info)]
            ELSE LET pre == IF Len(v.preRelease) > 0 THEN "-" \o v.preRelease
                            ELSE v.preRelease
                 IN  [body |-> "v" \o FormatUint(v.major) \o "." \o FormatUint(v.minor)
                                   \o "." \o FormatUint(v.patch) \o pre,
                      err  |-> NoError]
    IN  format[ParseSemantic(info)]

\* variant: a single pre-release segment is not padded with ".0"
kubeadmVersionUnpadded(info) ==
    LET format[v \in {ParseSemantic(info)}] ==
            IF ~v.ok
            THEN [body |-> "", err |-> Errorf("kubeadm version error: %v", info)]
            ELSE LET split == Split(v.preRelease)
                     pre   == IF Len(v.preRelease) > 0
                              THEN "-" \o (IF Len(split) > 2 THEN split[1] \o "." \o split[2]
                                           ELSE v.preRelease)
                              ELSE v.preRelease
                 IN  [body |-> "v" \o FormatUint(v.major) \o "." \o FormatUint(v.minor)
                                   \o "." \o FormatUint(v.patch) \o pre,
                      err  |-> NoError]
    IN  format[ParseSemantic(info)]

kubeadmVersion(info) ==
    LET format[v \in {ParseSemantic(info)}] ==
            IF ~v.ok
            THEN [body |-> "", err |-> Errorf("kubeadm version error: %v", info)]
            ELSE LET split == Split(v.preRelease)
                     pre   == IF Len(v.preRelease) > 0
                              THEN "-" \o (IF Len(split) > 2 THEN split[1] \o "." \o split[2]
                                           ELSE IF Len(split) < 2 THEN split[1] \o ".0"
                                           ELSE v.preRelease)
                              ELSE v.preRelease
                 IN  [body |-> "v" \o FormatUint(v.major) \o "." \o FormatUint(v.minor)
                                   \o "." \o FormatUint(v.patch) \o pre,
                      err  |-> NoError]
    IN  format[ParseSemantic(info)]

----------------------------------------------------------------------------
(* The release bucket and the fetch *)

\* What an HTTP GET can end in: no response at all, or a status and a body
\* that may fail to be read.
Response(getOK, status, body, readOK) ==
    [getOK |-> getOK, status |-> status, body |-> body, readOK |-> readOK]

OK(body) == Response(TRUE, 200, body, TRUE)

NotFound == Response(TRUE, 404, "", TRUE)

\* the response of the bucket to a GET of url: a file it does not hold is a 404
Get(url) == IF url \in DOMAIN server THEN server[url] ELSE NotFound

\* variant: the body is returned with its white space
fetchFromURLUntrimmed(url) ==
    LET resp == Get(url)
    IN  IF ~resp.getOK
        THEN [body |-> "", err |-> Errorf("unable to get URL %q: %s", url)]
        ELSE IF resp.status # 200
        THEN IF resp.status = 404
             THEN [body |-> "",
                   err  |-> status404Error("unable to fetch file. URL: %q, status: %v", url)]
             ELSE [body |-> "",
                   err  |-> Errorf("unable to fetch file. URL: %q, status: %v", url)]
        ELSE IF ~resp.readOK
        THEN [body |-> "", err |-> Errorf("unable to read content of URL %q: %s", url)]
        ELSE [body |-> resp.body, err |-> NoError]

fetchFromURL(url) ==
    LET resp == Get(url)
    IN  IF ~resp.getOK
        THEN [body |-> "", err |-> Errorf("unable to get URL %q: %s", url)]
        ELSE IF resp.status # 200
        THEN IF resp.status = 404
             THEN [body |-> "",
                   err  |-> status404Error("unable to fetch file. URL: %q, status: %v", url)]
             ELSE [body |-> "",
                   err  |-> Errorf("unable to fetch file. URL: %q, status: %v", url)]
        ELSE IF ~resp.readOK
        THEN [body |-> "", err |-> Errorf("unable to read content of URL %q: %s", url)]
        ELSE [body |-> TrimSpace(resp.body), err |-> NoError]

----------------------------------------------------------------------------
(* Inputs *)

\* the fetch counter stops counting here; a run that returns issues fewer
MaxFetches == 5

VersionTexts ==
    {"v1.2.3", "1.2.3", "v1.8.0-alpha.1", "v1.9.0-alpha.0.1234+sha.abc", "0.10.0+meta",
     "v1.2.03", "1.2.3.4", "v1.2", "v01.2.3", "vv1.2.3", "V1.2.3"}

LabelTexts ==
    {"stable", "latest", "stable-1", "latest-1.10",
     "Stable", "stable_1", "stable-", "-stable", "", "!!!not-a-version", "st able"}

PrefixTexts == {"", "release/", "ci/", "ci-cross/", "cia/", "release/ci/"}

Requests == {p \o t : p \in PrefixTexts, t \in VersionTexts \cup LabelTexts}

\* the requests that are fetched, and whose answer depends on the bucket
LabelRequests == {"stable", "release/latest", "ci/latest", "ci-cross/latest", "stable-1"}

SomeClientVersions == {"v1.11.0-beta.0.55+abc", "v0.0.0-master+$Format:%h$"}

Files ==
    {kubeReleaseBucketURL \o "/release/stable.txt",
     kubeReleaseBucketURL \o "/release/latest.txt",
     kubeReleaseBucketURL \o "/ci/latest.txt"}

Responses ==
    {OK("v1.10.3\n"), OK("v1.9.0-alpha.0.1234+sha.abc"), OK(" stable\n"), OK("latest"),
     OK("ci/latest"), OK("<html>"),
     NotFound,
     Response(TRUE, 500, "", TRUE)}

Buckets == [Files -> Responses]

\* a bucket that holds no file (every GET ends in 404), one that holds a
\* version in each file, and one whose files fail in the remaining ways: no
\* response, a body that cannot be read, a body that is no request
EmptyBucket == [f \in {} |-> NotFound]

PlainBucket == [f \in Files |-> OK("v1.10.3\n")]

FaultyBucket ==
    (kubeReleaseBucketURL \o "/release/stable.txt" :> Response(FALSE, 0, "", TRUE))
    @@ (kubeReleaseBucketURL \o "/release/latest.txt" :> Response(TRUE, 200, "v1.10.3", FALSE))
    @@ (kubeReleaseBucketURL \o "/ci/latest.txt" :> OK("Stable"))

----------------------------------------------------------------------------
(* The state machine *)

Start(r, c, b) ==
    /\ request = r
    /\ clientVersion = c
    /\ server = b
    /\ pc = "call"
    /\ version = r
    /\ ver = ""
    /\ err = NoError
    /\ fetches = 0
    /\ lastURL = ""
    /\ log = {}
    /\ isCI = {}
    /\ again = FALSE
    /\ first = ""

Init ==
    \/ \E r \in Requests, c \in ClientVersions, b \in {EmptyBucket, PlainBucket, FaultyBucket} :
            Start(r, c, b)
    \/ \E r \in LabelRequests, c \in SomeClientVersions, b \in Buckets :
            Start(r, c, b)

Return(v, e) ==
    /\ pc' = "returned"
    /\ ver' = v
    /\ err' = e
    /\ UNCHANGED <<server, clientVersion, request, version, isCI, again, first>>

\* lines 83-86: the argument is a version
ReturnVersion ==
    /\ pc = "call"
    /\ \E v \in {normalizedBuildVersion(version)} :
        /\ Len(v) # 0
        /\ Return(v, NoError)
    /\ UNCHANGED <<fetches, lastURL, log>>

\* lines 88-91: the argument does not split
ReturnSplitError ==
    /\ pc = "call"
    /\ Len(normalizedBuildVersion(version)) = 0
    /\ \E split \in {splitVersion(version)} :
        /\ split.err # NoError
        /\ Return("", split.err)
    /\ UNCHANGED <<fetches, lastURL, log>>

\* lines 94-97: the argument is a version behind a bucket prefix
ReturnBucketVersion ==
    /\ pc = "call"
    /\ Len(normalizedBuildVersion(version)) = 0
    /\ \E split \in {splitVersion(version)} :
        /\ split.err = NoError
        /\ \E v \in {normalizedBuildVersion(split.label)} :
            /\ Len(v) # 0
            /\ Return(v, NoError)
    /\ UNCHANGED <<fetches, lastURL, log>>

\* lines 100-117: the argument is a label; fetch it, and call again on the body
\* or, after a 404, on the client's own version
FetchLabel ==
    /\ pc = "call"
    /\ Len(normalizedBuildVersion(version)) = 0
    /\ \E split \in {splitVersion(version)} :
        /\ split.err = NoError
        /\ Len(normalizedBuildVersion(split.label)) = 0
        /\ kubeReleaseLabelRegex(split.label)
        /\ \E url \in {split.url \o "/" \o split.label \o ".txt"} :
           \E fetched \in {fetchFromURL(url)}, local \in {kubeadmVersion(clientVersion)} :
            /\ lastURL' = url
            /\ fetches' = IF fetches < MaxFetches THEN fetches + 1 ELSE fetches
            /\ IF fetched.err # NoError
               THEN IF ~isStatus404Error(fetched.err)
                    THEN /\ Return("", fetched.err)
                         /\ UNCHANGED log
                    ELSE IF local.err # NoError
                    THEN /\ Return("", local.err)
                         /\ log' = log \cup {"could not fetch a Kubernetes version from the internet"}
                    ELSE /\ log' = log \cup {"could not fetch a Kubernetes version from the internet",
                                             "falling back to the local client version"}
                         /\ version' = local.body
                         /\ UNCHANGED <<server, clientVersion, request, pc, ver, err, isCI,
                                        again, first>>
               ELSE /\ version' = fetched.body
                    /\ UNCHANGED <<server, clientVersion, request, pc, ver, err, isCI, log,
                                   again, first>>

\* line 118: the argument is neither a version nor a label
ReturnUnrecognized ==
    /\ pc = "call"
    /\ Len(normalizedBuildVersion(version)) = 0
    /\ \E split \in {splitVersion(version)} :
        /\ split.err = NoError
        /\ Len(normalizedBuildVersion(split.label)) = 0
        /\ ~kubeReleaseLabelRegex(split.label)
    /\ Return("", Errorf("version %q doesn't match patterns for neither semantic version nor labels (stable, latest, ...)", version))
    /\ UNCHANGED <<fetches, lastURL, log>>

\* one invocation of KubernetesReleaseVersion, to its return or its call of itself
KubernetesReleaseVersion ==
    \/ ReturnVersion
    \/ ReturnSplitError
    \/ ReturnBucketVersion
    \/ FetchLabel
    \/ ReturnUnrecognized

\* the caller asks whether its request names a CI build
AskIsCI ==
    /\ isCI = {}
    /\ isCI' = {KubernetesIsCIVersion(request)}
    /\ UNCHANGED <<server, clientVersion, request, pc, version, ver, err, fetches, lastURL, log,
                   again, first>>

\* the caller resolves the version it was given once more
CallAgain ==
    /\ pc = "returned"
    /\ err = NoError
    /\ ~again
    /\ again' = TRUE
    /\ first' = ver
    /\ version' = ver
    /\ pc' = "call"
    /\ ver' = ""
    /\ UNCHANGED <<server, clientVersion, request, err, fetches, lastURL, log, isCI>>

Next ==
    \/ ReturnVersion
    \/ ReturnSplitError
    \/ ReturnBucketVersion
    \/ FetchLabel
    \/ ReturnUnrecognized
    \/ AskIsCI
    \/ CallAgain

Spec == Init /\ [][Next]_vars

\* One call on its own, run to its end: an invocation that can take its step
\* takes it (the code runs on, and every fetch ends within its timeout).
LiveSpec == Init /\ [][KubernetesReleaseVersion]_vars /\ WF_vars(KubernetesReleaseVersion)

----------------------------------------------------------------------------
(* What the properties speak of *)

BucketPrefixTexts == {"release/", "ci/", "ci-cross/"}

\* the request without its bucket prefix, if it carries one
Remainder(s) ==
    IF \E p \in BucketPrefixTexts : HasPrefix(s, p)
    THEN Drop(s, Len(CHOOSE p \in BucketPrefixTexts : HasPrefix(s, p)))
    ELSE s

\* the path segment of the bucket a request names
Segment(s) ==
    IF HasPrefix(s, "ci/") THEN "ci"
    ELSE IF HasPrefix(s, "ci-cross/") THEN "ci-cross"
    ELSE "release"

\* {bucketRoot}/{segment}/{label}.txt
ExpectedURL(s) == kubeReleaseBucketURL \o "/" \o Segment(s) \o "/" \o Remainder(s) \o ".txt"

WithV(s) == IF HasPrefix(s, "v") THEN s ELSE "v" \o s

\* the request is a version, as it stands or behind a bucket prefix
IsLiteralRequest(s) == kubeReleaseRegex(s) \/ kubeReleaseRegex(Remainder(s))

\* the request passes the bucket-prefix rule and its remainder is a label
IsLabelRequest(s) ==
    /\ kubeBucketPrefixes(s) # << >>
    /\ ~kubeReleaseRegex(Remainder(s))
    /\ kubeReleaseLabelRegex(Remainder(s))

\* vMAJOR.MINOR.PATCH[-PRERELEASE]: no build metadata, a pre-release of at
\* most two dot-separated components
Canonical(s) ==
    LET dash == IF Positions(s, "-") = {} THEN Len(s) + 1 ELSE Min(Positions(s, "-"))
        core == SubSeq(s, 2, dash - 1)
        pre  == Drop(s, dash)
    IN  /\ HasPrefix(s, "v")
        /\ Positions(s, "+") = {}
        /\ Len(Split(core)) = 3
        /\ \A i \in 1..3 : IsNumber(Split(core)[i])
        /\ dash <= Len(s) => /\ Len(pre) >= 1
                             /\ Len(Split(pre)) <= 2
                             /\ \A i \in 1..Len(Split(pre)) : Len(Split(pre)[i]) >= 1

Returned == pc = "returned"

Succeeded == pc = "returned" /\ err = NoError

\* the most recent fetch ended in 404 (the bucket does not change during a call)
NotFoundSeen ==
    /\ lastURL # ""
    /\ Get(lastURL).getOK
    /\ Get(lastURL).status = 404

\* the most recent fetch failed otherwise: no response, another status, or a
\* body that could not be read
OtherFailureSeen ==
    /\ lastURL # ""
    /\ \/ ~Get(lastURL).getOK
       \/ Get(lastURL).status \notin {200, 404}
       \/ Get(lastURL).status = 200 /\ ~Get(lastURL).readOK

\* this step issues a fetch
Fetching == lastURL' # lastURL \/ fetches' # fetches

ClientParses == ParseSemantic(clientVersion).ok

----------------------------------------------------------------------------
(* C1: whenever KubernetesReleaseVersion returns without error, the returned *)
(* string begins with "v" and matches kubeReleaseRegex; it is never empty    *)
(* and never a label.                                                        *)
C1_ReturnsValidatedVersion ==
    Succeeded =>
        /\ ver # ""
        /\ HasPrefix(ver, "v")
        /\ kubeReleaseRegex(ver)
        /\ ~kubeReleaseLabelRegex(ver)

\* a version returned after two fetches: the body of a body
C1_Witness == Succeeded /\ ~again /\ fetches = 2 /\ ~NotFoundSeen

(* C2: a request that is a version, as it stands or after one release/, ci/  *)
(* or ci-cross/ prefix, is answered without a fetch by that version, with    *)
(* "v" prepended exactly when it is absent; a request that already begins    *)
(* with "v" is returned unchanged, and resolving the result once more        *)
(* returns it again, still without a fetch.                                  *)
C2_LiteralNoFetch ==
    IsLiteralRequest(request) =>
        /\ fetches = 0
        /\ lastURL = ""
        /\ Returned =>
            /\ err = NoError
            /\ ver = WithV(Remainder(request))
            /\ (HasPrefix(request, "v") => ver = request)
            /\ (again => ver = first)

\* a CI build given without "v" was resolved, then its result resolved again
C2_Witness ==
    /\ Succeeded /\ again
    /\ request = "ci/1.2.3"
    /\ ver = "v1.2.3"
    /\ first = "v1.2.3"

(* C3: once a fetch has ended in 404, no further fetch is issued; with a     *)
(* parseable client version the call goes on with kubeadmVersion of it,      *)
(* which is a version, and returns it without error; with an unparseable     *)
(* one it has returned the kubeadm version error.                            *)
C3_FallbackToClientVersion ==
    /\ [](NotFoundSeen =>
            IF ClientParses
            THEN /\ pc = "call" =>
                        /\ version = kubeadmVersion(clientVersion).body
                        /\ normalizedBuildVersion(version) = version
                 /\ Returned =>
                        /\ err = NoError
                        /\ ver = kubeadmVersion(clientVersion).body
            ELSE /\ Returned
                 /\ ver = ""
                 /\ err = Errorf("kubeadm version error: %v", clientVersion))
    /\ [][NotFoundSeen => ~Fetching]_vars

\* stable-1 is not in the bucket; the client's version came back
C3_Witness ==
    /\ Succeeded /\ NotFoundSeen
    /\ clientVersion = "v1.11.0-beta.0.55+abc"
    /\ ver = "v1.11.0-beta.0"

(* C4: once a fetch has failed with anything but a 404, the call has         *)
(* returned that fetch's error and no version, nothing was logged about a    *)
(* fallback, and (the call being over) no fetch follows.                     *)
C4_OtherFailuresPropagate ==
    OtherFailureSeen =>
        /\ Returned
        /\ ver = ""
        /\ err = fetchFromURL(lastURL).err
        /\ err.type = "error"
        /\ err.arg = lastURL
        /\ log = {}
        /\ ~again

\* the second fetch of a call failed
C4_Witness == OtherFailureSeen /\ Returned /\ fetches = 2

(* C5, as stated: every version returned without error is canonical,         *)
(* vMAJOR.MINOR.PATCH[-PRERELEASE] with no build metadata and at most two    *)
(* pre-release components.                                                   *)
C5_AlwaysCanonical == Succeeded => Canonical(ver)

(* C5, amended: a version returned after the 404 fallback is canonical; on   *)
(* every success path the returned version is the text of the version that   *)
(* was last classified, without its bucket prefix and with "v" prepended if  *)
(* absent, so whatever suffix that text carries is returned with it.         *)
C5_CanonicalAfterFallback ==
    Succeeded =>
        /\ NotFoundSeen => Canonical(ver)
        /\ ver = WithV(Remainder(version))

\* the fallback dropped a third pre-release component and the build metadata
C5_Witness ==
    /\ Succeeded /\ NotFoundSeen /\ ~again
    /\ clientVersion = "v1.9.0-alpha.0.1234+sha.abc"
    /\ ver = "v1.9.0-alpha.0"

(* C6: a call returns exactly when the chain of fetched bodies that starts  *)
(* at the request ends (in a version, in a string that is no request, or in *)
(* a failed fetch), and it has then issued one fetch per label of the       *)
(* chain; when the chain runs into a cycle of labels the call fetches       *)
(* without end and never returns.                                           *)

\* the body a label request is answered with, if its fetch succeeds
BodyOf(s) ==
    LET r == Get(ExpectedURL(s))
    IN  IF r.getOK /\ r.status = 200 /\ r.readOK THEN <<TrimSpace(r.body)>> ELSE << >>

\* the chain from s: whether it ends within n successful fetches, and the
\* number of fetches on it
RECURSIVE ChainFrom(_, _)
ChainFrom(s, n) ==
    IF ~IsLabelRequest(s) THEN [ends |-> TRUE, hops |-> 0]
    ELSE IF BodyOf(s) = << >> THEN [ends |-> TRUE, hops |-> 1]
    ELSE IF n = 0 THEN [ends |-> FALSE, hops |-> 0]
    ELSE LET rest == ChainFrom(BodyOf(s)[1], n - 1)
         IN  [ends |-> rest.ends, hops |-> rest.hops + 1]

\* a chain of successful fetches longer than the bucket has files repeats one
Chain == ChainFrom(request, Cardinality(DOMAIN server))

C6_ReturnsIffChainEnds ==
    /\ Chain.ends => <>Returned
    /\ ~Chain.ends => []~Returned
    /\ [](Returned => Chain.ends /\ fetches = Chain.hops)

\* a call deep in a cycle of labels, still fetching
C6_Witness == ~Chain.ends /\ pc = "call" /\ fetches = MaxFetches

(* C7: KubernetesIsCIVersion(request) is true exactly when splitVersion      *)
(* succeeds with the base URL of the ci or the ci-cross bucket; it is false  *)
(* for a request without prefix, for a release/ request and for a request    *)
(* that fails the bucket-prefix rule; asking issues no fetch.                *)
C7_IsCIMatchesSplit ==
    /\ [](isCI # {} =>
            /\ isCI = {/\ splitVersion(request).err = NoError
                       /\ splitVersion(request).url \in {kubeReleaseBucketURL \o "/ci",
                                                         kubeReleaseBucketURL \o "/ci-cross"}}
            /\ (Positions(request, "/") = {} => isCI = {FALSE})
            /\ (HasPrefix(request, "release/") => isCI = {FALSE})
            /\ (kubeBucketPrefixes(request) = << >> => isCI = {FALSE}))
    /\ [][isCI' # isCI => ~Fetching /\ pc' = pc]_vars

C7_Witness == isCI = {TRUE} /\ HasPrefix(request, "ci-cross/") /\ fetches = 0

(* C8: a request that fails the bucket-prefix rule is answered with the      *)
(* "invalid version" error, and one that passes it with a remainder that is  *)
(* neither a version nor a label with the "doesn't match patterns" error     *)
(* quoting the request as given; neither causes a fetch or yields a version. *)
C8_InvalidRequestFails ==
    /\ kubeBucketPrefixes(request) = << >> =>
            /\ fetches = 0 /\ lastURL = "" /\ ver = "" /\ ~again
            /\ Returned => err = Errorf("invalid version %q", request)
    /\ (/\ kubeBucketPrefixes(request) # << >>
        /\ ~kubeReleaseRegex(Remainder(request))
        /\ ~kubeReleaseLabelRegex(Remainder(request))) =>
            /\ fetches = 0 /\ lastURL = "" /\ ver = "" /\ ~again
            /\ Returned =>
                err = Errorf("version %q doesn't match patterns for neither semantic version nor labels (stable, latest, ...)", request)

C8_Witness ==
    /\ Returned
    /\ request = "ci/Stable"
    /\ err.type = "error"
    /\ err.arg = "ci/Stable"

(* C9: for a parseable client version the string kubeadmVersion derives has *)
(* the client's MAJOR.MINOR.PATCH behind "v", no build metadata, no suffix  *)
(* when the client has no pre-release, and otherwise "-" and exactly two    *)
(* pre-release segments: the client's first two, or its only one and "0".   *)

\* the string the fallback derived: the argument of the call it made
Derived == version

DerivedCore ==
    LET dash == IF Positions(Derived, "-") = {} THEN Len(Derived) + 1
                ELSE Min(Positions(Derived, "-"))
    IN  SubSeq(Derived, 2, dash - 1)

DerivedPre ==
    LET dash == IF Positions(Derived, "-") = {} THEN Len(Derived) + 1
                ELSE Min(Positions(Derived, "-"))
    IN  Split(Drop(Derived, dash))

ClientCore ==
    LET s     == IF HasPrefix(clientVersion, "v") THEN Drop(clientVersion, 1) ELSE clientVersion
        marks == Positions(s, "-") \cup Positions(s, "+")
    IN  SubSeq(s, 1, (IF marks = {} THEN Len(s) + 1 ELSE Min(marks)) - 1)

ClientPre == Split(ParseSemantic(clientVersion).preRelease)

C9_DerivedVersion ==
    (NotFoundSeen /\ ClientParses /\ pc = "call" /\ ~again) =>
        /\ HasPrefix(Derived, "v")
        /\ DerivedCore = ClientCore
        /\ Positions(Derived, "+") = {}
        /\ IF ParseSemantic(clientVersion).preRelease = ""
           THEN Derived = "v" \o ClientCore
           ELSE /\ Len(DerivedPre) = 2
                /\ Derived = "v" \o ClientCore \o "-" \o DerivedPre[1] \o "." \o DerivedPre[2]
                /\ DerivedPre[1] = ClientPre[1]
                /\ DerivedPre[2] = IF Len(ClientPre) >= 2 THEN ClientPre[2] ELSE "0"

\* a single pre-release segment was padded
C9_Witness ==
    /\ NotFoundSeen /\ pc = "call" /\ ~again
    /\ clientVersion = "v1.9.0-beta+meta"
    /\ version = "v1.9.0-beta.0"

(* C10: every fetch goes to {bucketRoot}/{segment}/{label}.txt, segment and *)
(* label taken from the string the fetching call was given: the segment is  *)
(* ci or ci-cross when that string carries the prefix and release            *)
(* otherwise; so the body of a ci/ file, when it is a label without prefix, *)
(* is fetched from release/.                                                 *)
C10_FetchURL ==
    /\ [][Fetching => lastURL' = ExpectedURL(version)]_vars
    /\ [][(/\ Fetching
           /\ HasPrefix(lastURL, kubeReleaseBucketURL \o "/ci/")
           /\ Positions(version, "/") = {})
          => lastURL' = kubeReleaseBucketURL \o "/release/" \o version \o ".txt"]_vars

\* ci/latest held the label stable, which was then fetched from release/
C10_Witness ==
    /\ request = "ci/latest"
    /\ fetches = 2
    /\ lastURL = kubeReleaseBucketURL \o "/release/stable.txt"

====
